---- MODULE Spec2Model ----
(***************************************************************************)
(* Health/alert state machine of the monitoring backend                    *)
(* (backend/monitoring/models.py, backend/monitoring/checks.py) modelled   *)
(* over a shared alert table.                                              *)
(*                                                                         *)
(* generate_alert runs on a Node or Mesh object as the calling task has    *)
(* loaded it: the object's status and the results of its health checks are *)
(* inputs of the call.  The health_status the call writes back to the      *)
(* object's row is kept in call.health_status; no call reads the column    *)
(* before writing it again.  Timestamps are not modelled: the order of the *)
(* rows is their order of creation, and a text line records how often it   *)
(* was prefixed with a timestamp.                                          *)
(*                                                                         *)
(* The metric rollup (backend/metrics/tasks.py) works on a table of data   *)
(* usage rows kept as a bag; times are seconds since the epoch.            *)
(***************************************************************************)
EXTENDS Integers, Sequences, FiniteSets, Bags, TLC

(* ------------------------------ bounds --------------------------------- *)
\* number of configured health checks per entity
NumChecks == 3
\* rows the alert table may hold
MaxAlerts == 2
\* event lines one alert text may hold
MaxText == 3
\* generate_alert calls one worker makes when the workers interleave
MaxRuns == 2
\* metric samples the collectors record
MaxSamples == 3
\* days the clock runs
HorizonDays == 70
\* aggregate_metrics calls one worker makes
MaxSweeps == 1

(* ----------------------------- entities -------------------------------- *)
None == "none"
Meshes == {"m1"}

\* Node.Status
NodeStatus == {"unknown", "offline", "online", "rebooting"}
OFFLINE == "offline"

\* HealthStatus
UNKNOWN == "unknown"
CRITICAL == "critical"
ERROR == "error"
WARNING == "warning"
OK == "ok"
HealthStatus == {UNKNOWN, CRITICAL, ERROR, WARNING, OK}

\* Alert.Level
LevelWarning == 1
LevelError == 2
LevelCritical == 3

\* Alert.Status
StatusNew == "NEW"
StatusUpgraded == "UPGRADED"
StatusRename == "RENAME"
StatusResolved == "RESOLVED"

TITLE_OFFLINE == "Node is offline"
TITLE_HEALTH_BAD == "Node's health is bad"
TITLE_HEALTH_CRITICAL == "Node's health is critical"

(* --------------------------- check results ----------------------------- *)
\* CheckResult.passed: bool | None
Passed == {"True", "False", "None"}
\* the result sets run_checks can hand back: one result per configured check
CheckResults == [1..NumChecks -> Passed]

Count(r, S) == Cardinality({i \in DOMAIN r : r[i] \in S})

\* sum(1 for c in self if not c.passed): None is falsy and is counted
num_failed(r) == Count(r, {"False", "None"})
num_passed(r) == Count(r, {"True"})
\* number of checks that could run (passed is not None)
num_run(r) == Count(r, {"True", "False"})

oll_korrect(r) == num_failed(r) = 0
\* num_failed <= len(self) / 2, true division
fewer_than_half_failed(r) == 2 * num_failed(r) <= Len(r)
more_than_half_failed_but_not_all(r) ==
    2 * num_failed(r) > Len(r) /\ num_passed(r) # 0

get_health_status(r) ==
    IF num_run(r) = 0 THEN UNKNOWN
    ELSE IF oll_korrect(r) THEN OK
    ELSE IF fewer_than_half_failed(r) THEN WARNING
    ELSE IF more_than_half_failed_but_not_all(r) THEN ERROR
    ELSE CRITICAL

(* ------------------------------ alert text ----------------------------- *)
\* One line of Alert.text.  stamps counts the "_<timestamp>_ " prefixes.
Line(msg, keys, old, new) ==
    [msg |-> msg, keys |-> keys, old |-> old, new |-> new, stamps |-> 0]
TEXT_OFFLINE == Line("The device is unreachable by ping", {}, None, None)
TEXT_HEALTH_BAD_OR_CRITICAL(keys) ==
    Line("The following health checks failed", keys, None, None)
TEXT_RESOLVED == Line("Resolved this alert", {}, None, None)
TEXT_RENAMED(old, new) == Line("Renamed", {}, old, new)

\* f"_{timestamp}_ {text}" on a text whose first line is Head(text)
Stamp(text) == <<[Head(text) EXCEPT !.stamps = @ + 1]>> \o Tail(text)

\* mutant: the event replaces the text
add_event_replaces(self, text) == Stamp(text)

\* Alert.add_event: the stamped event goes in front of the existing text
add_event(self, text) == Stamp(text) \o self.text

(* ----------------------------- alert rows ------------------------------ *)
Alert(level, title, text, node, mesh) ==
    [level |-> level, status |-> StatusNew, title |-> title, text |-> text,
     node |-> node, mesh |-> mesh]

\* placeholder for "no alert object"
NoAlert == Alert(0, None, <<>>, None, None)

upgrade(self, alert) ==
    [self EXCEPT !.level = alert.level,
                 !.title = alert.title,
                 !.text = add_event(self, alert.text),
                 !.status = StatusUpgraded]

\* self.title is overwritten before the event line is formatted
rename(self, alert) ==
    [self EXCEPT !.title = alert.title,
                 !.text = add_event([self EXCEPT !.title = alert.title],
                                    <<TEXT_RENAMED(alert.title, alert.title)>>),
                 !.status = StatusRename]

resolve(self) ==
    [self EXCEPT !.status = StatusResolved,
                 !.text = add_event(self, <<TEXT_RESOLVED>>)]

(* ------------------------- health check engine ------------------------ *)
\* a value an attribute or an accessor yields: None, or a number
NoValue == [has |-> FALSE, v |-> 0]
Value(n) == [has |-> TRUE, v |-> n]

\* feedback: the text for each value of passed
Feedback(none, false, true) ==
    [p \in Passed |-> IF p = "None" THEN none ELSE IF p = "False" THEN false ELSE true]

\* one entry of a check list; limit is the bound its func compares with
\* (per cent, minutes of age, milliseconds; 1 for func = bool)
Check(title, key, limit, feedback) ==
    [title |-> title, key |-> key, limit |-> limit, feedback |-> feedback]

CpuLimit == 80
MemLimit == 70
LastPingMinutes == 20
LastContactMinutes == 5
RttLimit == 40

\* settings.DEVICE_CHECKS, in declaration order
AllDeviceChecks ==
    << Check("CPU Usage", "cpu", CpuLimit,
             Feedback("No CPU usage recorded", "CPU usage is high",
                      "CPU usage falls in an acceptable range")),
       Check("Memory Usage", "mem", MemLimit,
             Feedback("No memory usage recorded", "Memory usage is high",
                      "Memory usage falls in an acceptable range")),
       Check("Recently Contacted", "last_ping", LastPingMinutes,
             Feedback("Device has never been pinged",
                      "Device has not been pinged recently",
                      "Device has been pinged recently")),
       Check("Active", "last_contact", LastContactMinutes,
             Feedback("Device has not contacted the server",
                      "Device has not been contacted the server recently",
                      "Device is active")),
       Check("Reachable", "reachable", 1,
             Feedback("Device has not been contacted yet", "Device is unreachable",
                      "Device is reachable")),
       Check("RTT", "rtt", RttLimit,
             Feedback("No RTT data", "Took too long to return a response",
                      "Response time is acceptable")) >>

\* the first NumChecks entries of the list
DEVICE_CHECKS == SubSeq(AllDeviceChecks, 1, NumChecks)

\* settings.MESH_CHECKS, the list Mesh.health_checks names
MESH_CHECKS ==
    << Check("Daily data usage", "daily_data_usage", 1,
             Feedback("No data usage recorded", "Data usage is high",
                      "Data usage falls in an acceptable range")) >>

\* the checks configured for the type of an entity
health_checks(obj) == IF obj.is_node THEN DEVICE_CHECKS ELSE MESH_CHECKS

\* check["func"] applied to a number: bool for "reachable", v < limit for
\* a usage or a time, "now - v" being the age in minutes
check_func(check, v) ==
    IF check.key = "reachable" THEN v # 0 ELSE v < check.limit

\* the values the check of a key can meet: None, passing, failing
ValuesOf(check) ==
    IF check.key = "reachable" THEN {NoValue, Value(1), Value(0)}
    ELSE {NoValue, Value(check.limit - 1), Value(check.limit)}

\* how an object exposes a key: "attr" when hasattr(node, key), "getter"
\* when it has a method get_<key>, "missing" when it has neither
Exposure(obj, key) ==
    IF obj.is_node
    THEN IF key \in {"last_ping", "last_contact", "reachable"} THEN "attr"
         ELSE IF key \in {"cpu", "mem", "rtt", "download_speed", "upload_speed"}
         THEN "getter"
         ELSE "missing"
    ELSE IF key \in {"daily_data_usage", "hourly_data_usage"} THEN "getter"
         ELSE "missing"

CheckResult(check, passed) ==
    [title |-> check.title, key |-> check.key, passed |-> passed,
     feedback |-> check.feedback[passed]]

\* getattr(node, f"get_{key}") on an object without the method
AttributeError == [raised |-> TRUE, results |-> <<>>]

RECURSIVE run_checks_from(_, _, _, _)
\* the loop of run_checks from check i on, results holding the earlier ones
run_checks_from(i, results, obj, values) ==
    IF i > Len(DEVICE_CHECKS) THEN [raised |-> FALSE, results |-> results]
    ELSE LET check == DEVICE_CHECKS[i]
             value == values[check.key]
             passed == IF value.has
                       THEN IF check_func(check, value.v) THEN "True" ELSE "False"
                       ELSE "None"
         IN  IF Exposure(obj, check.key) = "missing" THEN AttributeError
             ELSE run_checks_from(i + 1, Append(results, CheckResult(check, passed)),
                                  obj, values)

\* CheckResults.run_checks(node): [raised, results]; values is what
\* the object's attributes and accessors yield, by key
run_checks(obj, values) == run_checks_from(1, <<>>, obj, values)

\* the passed column of a result list
PassedOf(results) == [i \in 1..Len(results) |-> results[i].passed]

\* "no check_results entry in the instance __dict__"
NoCache == [cached |-> FALSE, results |-> <<>>]
\* the entry the cached_property stores after a run of the checks
Cached(results) == [cached |-> TRUE, results |-> results]

\* cached_property check_results: the cached list, or a run of the checks
check_results(cache, obj, values) ==
    IF cache.cached THEN [raised |-> FALSE, results |-> cache.results]
    ELSE run_checks(obj, values)

\* mutant: the cached results are not deleted before they are read
evaluated_results_kept(cache, obj, values) == check_results(cache, obj, values)

\* the results get_health_status evaluates: hasattr fills the cache (and is
\* False when run_checks raises), del empties it, the next read runs the
\* checks again
evaluated_results(cache, obj, values) == check_results(NoCache, obj, values)

(* ------------------------------- state --------------------------------- *)
VARIABLES
    alerts,     \* the Alert table: rows in order of creation, pk = index
    node_mesh,  \* the Node table: Node.mesh of every Node row
    call,       \* the generate_alert call that returned last: the object it
                \* ran on, what it computed and what it returned
    tasks,      \* the position and the local objects of every worker that
                \* is inside generate_alert
    values,     \* what the attributes and accessors of the monitored object
                \* yield at present, by check key
    held,       \* the object a caller keeps between calls, with the
                \* check_results entry of its __dict__; at is "called" from
                \* a generate_alert call on it until something else happens
    metrics,    \* the DataUsageMetric table: a bag of rows
    recorded,   \* the samples the collectors have recorded so far: a bag
    now,        \* timezone.now(), UTC seconds since the epoch
    runs        \* the position and the locals of every worker that is
                \* inside aggregate_metrics

alertVars == <<alerts, node_mesh, call, tasks, values, held>>
metricVars == <<metrics, recorded, now, runs>>
vars == <<alerts, node_mesh, call, tasks, values, held, metrics, recorded, now, runs>>

Nodes == DOMAIN node_mesh

\* the status values a Node object is loaded with; every value but OFFLINE
\* takes the same branches as "online"
StatusInputs == {"online", OFFLINE}

\* Vec(f, n): the first f checks fail, the next n could not run, the rest pass
Vec(f, n) ==
    [i \in 1..NumChecks |->
        IF i <= f THEN "False" ELSE IF i <= f + n THEN "None" ELSE "True"]
\* the check results fed to the calls, one for every health status: all
\* pass, one fails, all but one fail, all fail, none could run; and one
\* where a check fails and another could not run
ResultInputs ==
    {Vec(0, 0), Vec(1, 0), Vec(NumChecks - 1, 0), Vec(NumChecks, 0),
     Vec(0, NumChecks), Vec(1, 1)}

\* the object generate_alert runs on, as loaded: a Node or a Mesh
NodeObj(n, s) == [id |-> n, status |-> s, mesh |-> node_mesh[n], is_node |-> TRUE]
MeshObj(m) == [id |-> m, status |-> None, mesh |-> None, is_node |-> FALSE]

(* ---------------------------- alert queries ---------------------------- *)
\* mutant: the alerts of a node are selected by its mesh alone
get_alerts_of_mesh(obj, store) ==
    IF obj.is_node
    THEN {i \in DOMAIN store : store[i].mesh = obj.mesh}
    ELSE {i \in DOMAIN store : store[i].mesh = obj.id /\ store[i].node = None}

\* Node.get_alerts / Mesh.get_alerts: pks of the rows the filter selects
get_alerts(obj, store) ==
    IF obj.is_node
    THEN {i \in DOMAIN store : store[i].mesh = obj.mesh /\ store[i].node = obj.id}
    ELSE {i \in DOMAIN store : store[i].mesh = obj.id /\ store[i].node = None}

\* mutant: .filter(status=RESOLVED) written for .exclude(status=RESOLVED)
unresolved_alerts_filter(obj, store) ==
    {i \in get_alerts(obj, store) : store[i].status = StatusResolved}

\* mutant: the .exclude(status=RESOLVED) is left out
unresolved_alerts_all(obj, store) == get_alerts(obj, store)

\* .exclude(status=Alert.Status.RESOLVED)
unresolved_alerts(obj, store) ==
    {i \in get_alerts(obj, store) : store[i].status # StatusResolved}

Max(S) == CHOOSE x \in S : \A y \in S : y <= x

\* .order_by("-created").first(): the pk, 0 for None
latest_alert(obj, store) ==
    IF unresolved_alerts(obj, store) = {} THEN 0
    ELSE Max(unresolved_alerts(obj, store))

\* the row object a query hands back for a pk
Row(pk, store) == IF pk = 0 THEN NoAlert ELSE store[pk]

\* Model.save(update_fields=...) of the object self whose row is pk
save(store, pk, self, update_fields) ==
    [store EXCEPT ![pk] = [f \in DOMAIN @ |-> IF f \in update_fields THEN self[f] ELSE @[f]]]

(* --------------------------- metric records ---------------------------- *)
\* Metric.Granularity: the bucket width in seconds, RAW being the samples
RAW == 0
HOURLY == 3600
DAILY == 86400
MONTHLY == 2592000
Granularity == {RAW, HOURLY, DAILY, MONTHLY}

\* Granularity.prev_granularity
prev_granularity(gran) ==
    CASE gran = MONTHLY -> DAILY
      [] gran = DAILY -> HOURLY
      [] gran = HOURLY -> RAW
      [] OTHER -> None

\* the calendar of datetime: the days of the months of the year the epoch
\* starts, times being UTC seconds since the epoch and below one year
DaysInMonth == <<31, 28, 31, 30, 31, 30, 31, 31, 30, 31, 30, 31>>
SecondsPerHour == 3600
SecondsPerDay == 86400

RECURSIVE MonthStart(_)
\* the instant month k starts
MonthStart(k) ==
    IF k = 1 THEN 0 ELSE MonthStart(k - 1) + DaysInMonth[k - 1] * SecondsPerDay

\* the month an instant lies in
MonthOf(t) == CHOOSE k \in 1..12 : MonthStart(k) <= t /\ (k = 12 \/ t < MonthStart(k + 1))

\* the fields of the datetime of an instant
Civil(t) ==
    [month |-> MonthOf(t),
     day |-> (t - MonthStart(MonthOf(t))) \div SecondsPerDay + 1,
     hour |-> (t % SecondsPerDay) \div SecondsPerHour,
     minute |-> (t % SecondsPerHour) \div 60,
     second |-> t % 60]

\* mutant: every granularity floors to a multiple of its width
round_down_by_width(gran, t) == t - (t % gran)

\* Granularity.round_down on a timestamp in seconds since the epoch: the
\* start of the hour, of the day, of the calendar month
round_down(gran, t) ==
    CASE gran = HOURLY -> t - (t % SecondsPerHour)
      [] gran = DAILY -> t - (t % SecondsPerDay)
      [] gran = MONTHLY -> MonthStart(MonthOf(t))

\* a DataUsageMetric row
Metric(mac, granularity, created, rx_bytes, tx_bytes) ==
    [mac |-> mac, granularity |-> granularity, created |-> created,
     rx_bytes |-> rx_bytes, tx_bytes |-> tx_bytes]

\* QuerySet.filter: the rows S of a bag of rows, every copy of them
Filter(store, S) == [m \in S \cap BagToSet(store) |-> store[m]]

\* the rows of one device, whatever their granularity
metrics_of(store, mac) == Filter(store, {m \in BagToSet(store) : m.mac = mac})

RECURSIVE SumOver(_, _, _)
\* Sum(field) over the rows S of store, every copy counted
SumOver(S, store, field) ==
    IF S = {} THEN 0
    ELSE LET m == CHOOSE x \in S : TRUE
         IN  store[m] * m[field] + SumOver(S \ {m}, store, field)

\* QuerySet.get_sum(field)
get_sum(store, field) == SumOver(BagToSet(store), store, field)

\* QuerySet.create_aggregated: one row holding the sums of the queryset
create_aggregated(bucket_metrics, mac, created, granularity) ==
    Metric(mac, granularity, created,
           get_sum(bucket_metrics, "rx_bytes"), get_sum(bucket_metrics, "tx_bytes"))

(* --------------------------- aggregate_metrics ------------------------- *)
\* metric_type.objects.filter(granularity=from_gran).filter(mac=mac)
metrics_for_mac(store, mac, from_gran) ==
    Filter(store, {m \in BagToSet(store) :
                      m.granularity = from_gran /\ m.mac = mac})

\* mutant: the rows of every granularity are selected
bucket_metrics_any_granularity(store, mac, from_gran, t0, t1) ==
    Filter(store, {m \in BagToSet(store) :
                      /\ m.mac = mac
                      /\ m.created >= t0 /\ m.created < t1})

\* metrics_for_mac.filter(created__gte=t0, created__lt=t1)
bucket_metrics(store, mac, from_gran, t0, t1) ==
    Filter(store, {m \in BagToSet(store) :
                      /\ m.granularity = from_gran /\ m.mac = mac
                      /\ m.created >= t0 /\ m.created < t1})

\* mutant: the aggregated rows are not deleted
aggregate_bucket_keeps(store, mac, to_gran, t0) ==
    LET t1 == t0 + to_gran
        ta == t0 + (t1 - t0) \div 2
        bucket == bucket_metrics(store, mac, prev_granularity(to_gran), t0, t1)
    IN  IF BagToSet(bucket) = {} THEN store
        ELSE store (+) SetToBag({create_aggregated(bucket, mac, ta, to_gran)})

\* the body of the loop over the buckets: the store it leaves
aggregate_bucket(store, mac, to_gran, t0) ==
    LET t1 == t0 + to_gran
        ta == t0 + (t1 - t0) \div 2
        bucket == bucket_metrics(store, mac, prev_granularity(to_gran), t0, t1)
    IN  IF BagToSet(bucket) = {} THEN store
        ELSE (store (+) SetToBag({create_aggregated(bucket, mac, ta, to_gran)}))
                 (-) bucket

MinOf(S) == CHOOSE x \in S : \A y \in S : x <= y

\* the first bucket from t0 on, in steps of the width, that holds a row
\* of the device; max_time when there is none before max_time
next_bucket(store, mac, to_gran, t0, max_time) ==
    LET created == {m.created : m \in BagToSet(
                        bucket_metrics(store, mac, prev_granularity(to_gran),
                                       t0, max_time))}
    IN  IF created = {} THEN max_time
        ELSE t0 + ((MinOf(created) - t0) \div to_gran) * to_gran

RECURSIVE aggregate_range(_, _, _, _, _)
\* for t0_int in range(t0, max_time, to_gran.value): the iterations whose
\* bucket_metrics.exists() is false do nothing and are passed over at once
aggregate_range(store, mac, to_gran, t0, max_time) ==
    LET tb == next_bucket(store, mac, to_gran, t0, max_time)
    IN  IF tb >= max_time THEN store
        ELSE aggregate_range(aggregate_bucket(store, mac, to_gran, tb), mac, to_gran,
                             tb + to_gran, max_time)

\* the body of the loop over the mac addresses
aggregate_mac(store, mac, to_gran) ==
    LET created == {m.created : m \in BagToSet(
                        metrics_for_mac(store, mac, prev_granularity(to_gran)))}
    IN  IF created = {} THEN store
        ELSE aggregate_range(store, mac, to_gran,
                             round_down(to_gran, MinOf(created)),
                             round_down(to_gran, Max(created)) + to_gran)

RECURSIVE aggregate_macs(_, _, _)
\* for mac in unique_mac_addresses
aggregate_macs(store, macs, to_gran) ==
    IF macs = {} THEN store
    ELSE LET mac == CHOOSE x \in macs : TRUE
         IN  aggregate_macs(aggregate_mac(store, mac, to_gran), macs \ {mac}, to_gran)

\* aggregate_metrics(DataUsageMetric, to_gran): the store it leaves
aggregate_metrics(store, to_gran) ==
    aggregate_macs(store,
                   {m.mac : m \in {x \in BagToSet(store) :
                                      x.granularity = prev_granularity(to_gran)}},
                   to_gran)

(* --------------------------- Alert.create ------------------------------ *)
\* mutant: "if not c.passed" written for "if c.passed is False"
health_checks_failed_falsy(r) == {i \in DOMAIN r : r[i] # "True"}

\* keys of the checks with passed is False
health_checks_failed(r) == {i \in DOMAIN r : r[i] = "False"}

\* mutant: the health status is looked at before the OFFLINE status
create_health_first(obj, hs, r) ==
    LET node == IF obj.is_node THEN obj.id ELSE None
        mesh == IF obj.is_node THEN obj.mesh ELSE obj.id
    IN  IF hs # OK /\ hs = CRITICAL
        THEN Alert(LevelCritical, TITLE_HEALTH_CRITICAL,
                   Stamp(<<TEXT_HEALTH_BAD_OR_CRITICAL(health_checks_failed(r))>>),
                   node, mesh)
        ELSE IF hs # OK /\ hs \in {ERROR, WARNING}
        THEN Alert(LevelError, TITLE_HEALTH_BAD,
                   Stamp(<<TEXT_HEALTH_BAD_OR_CRITICAL(health_checks_failed(r))>>),
                   node, mesh)
        ELSE IF node # None /\ obj.status = OFFLINE
        THEN Alert(LevelCritical, TITLE_OFFLINE, Stamp(<<TEXT_OFFLINE>>), node, mesh)
        ELSE NoAlert

\* mutant: the offline candidate is given the level ERROR
create_offline_error(obj, hs, r) ==
    LET node == IF obj.is_node THEN obj.id ELSE None
        mesh == IF obj.is_node THEN obj.mesh ELSE obj.id
    IN  IF node # None /\ obj.status = OFFLINE
        THEN Alert(LevelError, TITLE_OFFLINE, Stamp(<<TEXT_OFFLINE>>), node, mesh)
        ELSE IF hs # OK /\ hs = CRITICAL
        THEN Alert(LevelCritical, TITLE_HEALTH_CRITICAL,
                   Stamp(<<TEXT_HEALTH_BAD_OR_CRITICAL(health_checks_failed(r))>>),
                   node, mesh)
        ELSE IF hs # OK /\ hs \in {ERROR, WARNING}
        THEN Alert(LevelError, TITLE_HEALTH_BAD,
                   Stamp(<<TEXT_HEALTH_BAD_OR_CRITICAL(health_checks_failed(r))>>),
                   node, mesh)
        ELSE NoAlert

\* mutant: a WARNING health status gets an alert of level WARNING
create_warning_level(obj, hs, r) ==
    LET node == IF obj.is_node THEN obj.id ELSE None
        mesh == IF obj.is_node THEN obj.mesh ELSE obj.id
    IN  IF node # None /\ obj.status = OFFLINE
        THEN Alert(LevelCritical, TITLE_OFFLINE, Stamp(<<TEXT_OFFLINE>>), node, mesh)
        ELSE IF hs # OK /\ hs = CRITICAL
        THEN Alert(LevelCritical, TITLE_HEALTH_CRITICAL,
                   Stamp(<<TEXT_HEALTH_BAD_OR_CRITICAL(health_checks_failed(r))>>),
                   node, mesh)
        ELSE IF hs # OK /\ hs \in {ERROR, WARNING}
        THEN Alert(IF hs = WARNING THEN LevelWarning ELSE LevelError,
                   TITLE_HEALTH_BAD,
                   Stamp(<<TEXT_HEALTH_BAD_OR_CRITICAL(health_checks_failed(r))>>),
                   node, mesh)
        ELSE NoAlert

\* mutant: the alert of a Node is built without the node's mesh
create_node_only(obj, hs, r) ==
    LET node == IF obj.is_node THEN obj.id ELSE None
        mesh == IF obj.is_node THEN None ELSE obj.id
    IN  IF node # None /\ obj.status = OFFLINE
        THEN Alert(LevelCritical, TITLE_OFFLINE, Stamp(<<TEXT_OFFLINE>>), node, mesh)
        ELSE IF hs # OK /\ hs = CRITICAL
        THEN Alert(LevelCritical, TITLE_HEALTH_CRITICAL,
                   Stamp(<<TEXT_HEALTH_BAD_OR_CRITICAL(health_checks_failed(r))>>),
                   node, mesh)
        ELSE IF hs # OK /\ hs \in {ERROR, WARNING}
        THEN Alert(LevelError, TITLE_HEALTH_BAD,
                   Stamp(<<TEXT_HEALTH_BAD_OR_CRITICAL(health_checks_failed(r))>>),
                   node, mesh)
        ELSE NoAlert

\* obj is the loaded object, hs the status update_health_status has just
\* stored and r the check results of that evaluation
create(obj, hs, r) ==
    LET node == IF obj.is_node THEN obj.id ELSE None
        mesh == IF obj.is_node THEN obj.mesh ELSE obj.id
    IN  IF node # None /\ obj.status = OFFLINE
        THEN Alert(LevelCritical, TITLE_OFFLINE, Stamp(<<TEXT_OFFLINE>>), node, mesh)
        ELSE IF hs # OK /\ hs = CRITICAL
        THEN Alert(LevelCritical, TITLE_HEALTH_CRITICAL,
                   Stamp(<<TEXT_HEALTH_BAD_OR_CRITICAL(health_checks_failed(r))>>),
                   node, mesh)
        ELSE IF hs # OK /\ hs \in {ERROR, WARNING}
        THEN Alert(LevelError, TITLE_HEALTH_BAD,
                   Stamp(<<TEXT_HEALTH_BAD_OR_CRITICAL(health_checks_failed(r))>>),
                   node, mesh)
        ELSE NoAlert

(* ---------------------------- Alert.apply ------------------------------ *)
\* mutant: the upgrade test compares the wrong way round
apply_case_lt(self, latest) ==
    IF latest = NoAlert THEN "save"
    ELSE IF self.level < latest.level THEN "upgrade"
    ELSE IF self.level = latest.level /\ self.title # latest.title THEN "rename"
    ELSE "none"

\* mutant: the rename test leaves out the comparison of the titles
apply_case_no_title(self, latest) ==
    IF latest = NoAlert THEN "save"
    ELSE IF self.level > latest.level THEN "upgrade"
    ELSE IF self.level = latest.level THEN "rename"
    ELSE "none"

\* the branch apply takes; latest is the row object of latest_alert
apply_case(self, latest) ==
    IF latest = NoAlert THEN "save"
    ELSE IF self.level > latest.level THEN "upgrade"
    ELSE IF self.level = latest.level /\ self.title # latest.title THEN "rename"
    ELSE "none"

\* the table after the branch has been taken on the object latest of row pk
apply_write(self, store, pk, latest) ==
    CASE apply_case(self, latest) = "save" -> Append(store, self)
      [] apply_case(self, latest) = "upgrade" ->
            save(store, pk, upgrade(latest, self), {"text", "level", "title", "status"})
      [] apply_case(self, latest) = "rename" ->
            save(store, pk, rename(latest, self), {"text", "title", "status"})
      [] OTHER -> store

\* mutant: level__lt written for level__gt
alerts_worse_lt(self, obj, store) ==
    {i \in unresolved_alerts(obj, store) : store[i].level < self.level}

\* unresolved_alerts.filter(level__gt=self.level), evaluated after the write
alerts_worse_than_current_status(self, obj, store) ==
    {i \in unresolved_alerts(obj, store) : store[i].level > self.level}

\* for a in S: a.resolve(), on rows just fetched
resolve_all(S, store) ==
    [i \in DOMAIN store |-> IF i \in S THEN resolve(store[i]) ELSE store[i]]

\* mutant: an alert without node and mesh is saved like a first alert
apply_unscoped_saves(self, obj, store) ==
    IF self.node = None /\ self.mesh = None
    THEN [store |-> Append(store, self), result |-> TRUE]
    ELSE LET pk == latest_alert(obj, store)
             written == apply_write(self, store, pk, Row(pk, store))
         IN  [store |-> resolve_all(
                            alerts_worse_than_current_status(self, obj, written),
                            written),
              result |-> apply_case(self, Row(pk, store)) # "none"]

\* Alert.apply run on the object obj of the candidate's scope: [store, result]
apply(self, obj, store) ==
    IF self.node = None /\ self.mesh = None
    THEN [store |-> store, result |-> FALSE]
    ELSE LET pk == latest_alert(obj, store)
             written == apply_write(self, store, pk, Row(pk, store))
         IN  [store |-> resolve_all(
                            alerts_worse_than_current_status(self, obj, written),
                            written),
              result |-> apply_case(self, Row(pk, store)) # "none"]

(* ------------------- HealthStatusMixin.generate_alert ------------------ *)
NoCall ==
    [entity |-> None, status |-> None, results |-> <<>>, health_status |-> UNKNOWN,
     candidate |-> NoAlert, result |-> FALSE, returned |-> NoAlert,
     raised |-> FALSE]

\* what a returning call leaves in call; health_status is the value
\* update_health_status wrote to the object's row, result what apply returned
\* and returned the object generate_alert hands back: the candidate
Returned(obj, r, alert, result) ==
    [entity |-> obj.id, status |-> obj.status, results |-> r,
     health_status |-> get_health_status(r), candidate |-> alert,
     result |-> alert # NoAlert /\ result,
     returned |-> IF alert # NoAlert /\ result THEN alert ELSE NoAlert,
     raised |-> FALSE]

\* the table stays within the bounds of the model
WithinBounds(store) ==
    /\ Len(store) <= MaxAlerts
    /\ \A i \in DOMAIN store : Len(store[i].text) <= MaxText

\* mutant: without a candidate the standing alerts are left as they are
generate_alert_store_no_resolve(obj, r, store) ==
    IF create(obj, get_health_status(r), r) = NoAlert
    THEN store
    ELSE apply(create(obj, get_health_status(r), r), obj, store).store

\* the table generate_alert leaves
generate_alert_store(obj, r, store) ==
    IF create(obj, get_health_status(r), r) = NoAlert
    THEN resolve_all(unresolved_alerts(obj, store), store)
    ELSE apply(create(obj, get_health_status(r), r), obj, store).store

\* generate_alert on obj whose checks evaluate to r
generate_alert(obj, r) ==
    LET alert == create(obj, get_health_status(r), r)
    IN  /\ \A w \in DOMAIN tasks : tasks[w].pc = "idle"
        /\ WithinBounds(generate_alert_store(obj, r, alerts))
        /\ alerts' = generate_alert_store(obj, r, alerts)
        /\ call' = Returned(obj, r, alert, apply(alert, obj, alerts).result)
        /\ UNCHANGED <<node_mesh, tasks>>
        /\ UNCHANGED metricVars

NodeGenerateAlert ==
    \E n \in Nodes, s \in StatusInputs, r \in ResultInputs :
        /\ generate_alert(NodeObj(n, s), r)
        /\ UNCHANGED <<values, held>>

MeshGenerateAlert ==
    \E m \in Meshes, r \in ResultInputs :
        /\ generate_alert(MeshObj(m), r)
        /\ UNCHANGED <<values, held>>

\* the keys of the device checks
CheckKeys == {DEVICE_CHECKS[i].key : i \in 1..Len(DEVICE_CHECKS)}

\* the values under which the first f checks fail, the next n have no value
\* and the rest pass
ValuesVec(f, n) ==
    LET vec[i \in 0..Len(DEVICE_CHECKS)] ==
            IF i = 0 THEN [k \in {} |-> NoValue]
            ELSE LET check == DEVICE_CHECKS[i]
                     failing == CHOOSE v \in ValuesOf(check) :
                                    v.has /\ ~check_func(check, v.v)
                     passing == CHOOSE v \in ValuesOf(check) :
                                    v.has /\ check_func(check, v.v)
                 IN  [k \in DOMAIN vec[i - 1] \cup {check.key} |->
                        IF k # check.key THEN vec[i - 1][k]
                        ELSE IF i <= f THEN failing
                        ELSE IF i <= f + n THEN NoValue
                        ELSE passing]
    IN  vec[Len(DEVICE_CHECKS)]

\* the states of the values, one for every vector of ResultInputs
ValueInputs ==
    {ValuesVec(0, 0), ValuesVec(1, 0), ValuesVec(NumChecks - 1, 0),
     ValuesVec(NumChecks, 0), ValuesVec(0, NumChecks), ValuesVec(1, 1)}

\* metrics arrive, timestamps age or fields are written
SetValues ==
    \E v \in ValueInputs :
        /\ v # values
        /\ values' = v
        /\ held' = [held EXCEPT !.at = "idle"]
        /\ UNCHANGED <<alerts, node_mesh, call, tasks>>
        /\ UNCHANGED metricVars

\* obj.check_results is read outside generate_alert: the results are cached
ReadCheckResults ==
    LET out == check_results(held.cache, held.obj, values)
    IN  /\ ~out.raised
        /\ ~held.cache.cached
        /\ held' = [held EXCEPT !.cache = Cached(out.results), !.at = "idle"]
        /\ UNCHANGED <<alerts, node_mesh, call, tasks, values>>
        /\ UNCHANGED metricVars

\* generate_alert on the held object raises out of get_health_status
GenerateAlertRaises ==
    /\ evaluated_results(held.cache, held.obj, values).raised
    /\ call' = [NoCall EXCEPT !.entity = held.obj.id, !.status = held.obj.status,
                              !.raised = TRUE]
    /\ held' = [held EXCEPT !.cache = NoCache, !.at = "called"]
    /\ UNCHANGED <<alerts, node_mesh, tasks, values>>
    /\ UNCHANGED metricVars

\* generate_alert on the held object: get_health_status evaluates the
\* checks, Alert.create reads the results it cached
GenerateAlertHeld ==
    LET out == evaluated_results(held.cache, held.obj, values)
    IN  /\ ~out.raised
        /\ generate_alert(held.obj, PassedOf(out.results))
        /\ held' = [held EXCEPT !.cache = Cached(out.results), !.at = "called"]
        /\ UNCHANGED values

\* the titles an alert is built with
Titles == {TITLE_OFFLINE, TITLE_HEALTH_BAD, TITLE_HEALTH_CRITICAL}

\* Alert(...).apply() called on an alert built without node and mesh
ApplyUnscoped ==
    \E level \in {LevelWarning, LevelError, LevelCritical}, title \in Titles :
        LET self == Alert(level, title, Stamp(<<TEXT_OFFLINE>>), None, None)
            applied == apply(self, MeshObj(None), alerts)
        IN  /\ \A w \in DOMAIN tasks : tasks[w].pc = "idle"
            /\ WithinBounds(applied.store)
            /\ alerts' = applied.store
            /\ call' = [NoCall EXCEPT !.candidate = self,
                                      !.result = applied.result]
            /\ UNCHANGED <<node_mesh, values, held, tasks>>
            /\ UNCHANGED metricVars

(* ------------------------------ workers -------------------------------- *)
\* the two scheduled tasks that call Node.generate_alert
Workers == {"run_pings", "generate_alerts"}

Idle ==
    [pc |-> "idle", obj |-> MeshObj(None), results |-> <<>>, alert |-> NoAlert,
     pk |-> 0, latest |-> NoAlert, todo |-> <<>>, result |-> FALSE, runs |-> 0]

\* rows as the objects a query hands back, in pk order
Fetched(S, store) ==
    LET pks[n \in 0..Len(store)] ==
            IF n = 0 THEN <<>>
            ELSE IF n \in S THEN Append(pks[n - 1], [pk |-> n, row |-> store[n]])
            ELSE pks[n - 1]
    IN  pks[Len(store)]

\* a worker moves on; the workers do not touch the metrics
SetTask(w, t) ==
    /\ tasks' = [tasks EXCEPT ![w] = t]
    /\ UNCHANGED metricVars

\* a worker enters Node.generate_alert: Alert.create builds the candidate
\* from the object the task holds
Begin(w) ==
    \E n \in Nodes, s \in StatusInputs, r \in ResultInputs :
        LET alert == create(NodeObj(n, s), get_health_status(r), r)
        IN  /\ tasks[w].pc = "idle"
            /\ tasks[w].runs < MaxRuns
            /\ SetTask(w, [Idle EXCEPT
                   !.runs = tasks[w].runs + 1,
                   !.pc = IF alert = NoAlert THEN "resolve_query" ELSE "apply_query",
                   !.obj = NodeObj(n, s), !.results = r, !.alert = alert])
            /\ UNCHANGED <<alerts, node_mesh, values, held, call>>

\* no candidate: the unresolved alerts of the scope are fetched
ResolveQuery(w) ==
    /\ tasks[w].pc = "resolve_query"
    /\ SetTask(w, [tasks[w] EXCEPT
           !.pc = "resolving",
           !.todo = Fetched(unresolved_alerts(tasks[w].obj, alerts), alerts)])
    /\ UNCHANGED <<alerts, node_mesh, values, held, call>>

\* apply: unresolved_alerts.order_by("-created").first()
ApplyQuery(w) ==
    /\ tasks[w].pc = "apply_query"
    /\ SetTask(w, [tasks[w] EXCEPT
           !.pc = "apply_write",
           !.pk = latest_alert(tasks[w].obj, alerts),
           !.latest = Row(latest_alert(tasks[w].obj, alerts), alerts)])
    /\ UNCHANGED <<alerts, node_mesh, values, held, call>>

\* apply: save, upgrade, rename or nothing, decided on the fetched object
ApplyWrite(w) ==
    /\ tasks[w].pc = "apply_write"
    /\ WithinBounds(apply_write(tasks[w].alert, alerts, tasks[w].pk, tasks[w].latest))
    /\ alerts' = apply_write(tasks[w].alert, alerts, tasks[w].pk, tasks[w].latest)
    /\ SetTask(w, [tasks[w] EXCEPT
           !.pc = "worse_query",
           !.result = apply_case(tasks[w].alert, tasks[w].latest) # "none"])
    /\ UNCHANGED <<node_mesh, values, held, call>>

\* apply: the alerts worse than the candidate are fetched
WorseQuery(w) ==
    /\ tasks[w].pc = "worse_query"
    /\ SetTask(w, [tasks[w] EXCEPT
           !.pc = "resolving",
           !.todo = Fetched(alerts_worse_than_current_status(
                                tasks[w].alert, tasks[w].obj, alerts), alerts)])
    /\ UNCHANGED <<alerts, node_mesh, values, held, call>>

\* a.resolve() on the next fetched object
ResolveOne(w) ==
    /\ tasks[w].pc = "resolving"
    /\ tasks[w].todo # <<>>
    /\ LET a == Head(tasks[w].todo)
           written == save(alerts, a.pk, resolve(a.row), {"status", "text"})
       IN  /\ WithinBounds(written)
           /\ alerts' = written
    /\ SetTask(w, [tasks[w] EXCEPT !.todo = Tail(@)])
    /\ UNCHANGED <<node_mesh, values, held, call>>

\* generate_alert returns
Return(w) ==
    /\ tasks[w].pc = "resolving"
    /\ tasks[w].todo = <<>>
    /\ call' = Returned(tasks[w].obj, tasks[w].results, tasks[w].alert,
                        tasks[w].result)
    /\ SetTask(w, [Idle EXCEPT !.runs = tasks[w].runs])
    /\ UNCHANGED <<alerts, node_mesh, values, held>>

(* ------------------------------ metrics -------------------------------- *)
\* the devices that report, the instants of their samples (22:10 and 23:16
\* of the first day, 00:30 of the second) and the byte counts <<rx, tx>>
Macs == {"ec:27", "f7:bb"}
SampleTimes == {79800, 83760, 88200}
SamplePayloads == {<<10, 3>>}

\* a collector records a sample
RecordMetric ==
    \E mac \in Macs, t \in SampleTimes, p \in SamplePayloads :
        LET m == Metric(mac, RAW, t, p[1], p[2])
        IN  /\ BagCardinality(recorded) < MaxSamples
            /\ metrics' = metrics (+) SetToBag({m})
            /\ recorded' = recorded (+) SetToBag({m})
            /\ UNCHANGED <<now, runs, alertVars>>

\* aggregate_metrics(DataUsageMetric, to_gran) runs from start to end
Aggregate ==
    \E to_gran \in {HOURLY, DAILY, MONTHLY} :
        /\ metrics' = aggregate_metrics(metrics, to_gran)
        /\ UNCHANGED <<recorded, now, runs, alertVars>>

(* --------------------------- Mesh.get_data_usage ------------------------ *)
\* models.Sum(field) over a queryset: None when the queryset is empty
Sum(store, field) ==
    IF BagToSet(store) = {} THEN NoValue ELSE Value(get_sum(store, field))

\* (x or 0)
OrZero(x) == IF x.has /\ x.v # 0 THEN x.v ELSE 0

\* set(self.nodes.values_list("mac", flat=True)): a Node row is keyed by
\* its mac
mac_addresses(mesh) == {n \in Nodes : node_mesh[n] = mesh}

\* mutant: the records of every device are summed
get_data_usage_any_mac(mesh, t0, t1) ==
    LET data_usage == Filter(metrics, {m \in BagToSet(metrics) :
                                          m.created >= t0 /\ m.created < t1})
    IN  OrZero(Sum(data_usage, "tx_bytes")) + OrZero(Sum(data_usage, "rx_bytes"))

\* Mesh.get_data_usage(t0, t1)
get_data_usage(mesh, t0, t1) ==
    LET data_usage == Filter(metrics, {m \in BagToSet(metrics) :
                                          /\ m.mac \in mac_addresses(mesh)
                                          /\ m.created >= t0 /\ m.created < t1})
    IN  OrZero(Sum(data_usage, "tx_bytes")) + OrZero(Sum(data_usage, "rx_bytes"))

\* Mesh.get_daily_data_usage(), now being timezone.now()
get_daily_data_usage(mesh) ==
    LET today_start == round_down(DAILY, now)
    IN  get_data_usage(mesh, today_start, today_start + SecondsPerDay)

\* Mesh.get_hourly_data_usage(), now being timezone.now()
get_hourly_data_usage(mesh) ==
    LET this_hour_start == round_down(HOURLY, now)
    IN  get_data_usage(mesh, this_hour_start, this_hour_start + SecondsPerHour)

(* ------------------- aggregate_metrics, query by query ------------------ *)
\* the Celery workers that run the scheduled aggregations
Aggregators == {"a1", "a2"}

\* a worker outside aggregate_metrics that has not made a call yet
NotRunning ==
    [pc |-> "idle", to_gran |-> RAW, macs |-> {}, mac |-> None, t0 |-> 0, max_time |-> 0,
     started |-> 0]

\* the worker after it left aggregate_metrics
Left(r) == [NotRunning EXCEPT !.started = r.started]

\* the worker enters aggregate_metrics(DataUsageMetric, to_gran) and reads
\* the set of mac addresses that have rows at the source granularity
RunStart(w, to_gran) ==
    /\ runs[w].pc = "idle"
    /\ runs[w].started < MaxSweeps
    /\ runs' = [runs EXCEPT ![w] =
           [NotRunning EXCEPT
               !.pc = "macs", !.to_gran = to_gran, !.started = runs[w].started + 1,
               !.macs = {m.mac : m \in {x \in BagToSet(metrics) :
                                          x.granularity = prev_granularity(to_gran)}}]]
    /\ UNCHANGED <<metrics, recorded, now, alertVars>>

\* for mac in unique_mac_addresses: the first and the last row of the mac
\* are read; the loop ends when no mac is left
RunNextMac(w) ==
    /\ runs[w].pc = "macs"
    /\ IF runs[w].macs = {}
       THEN runs' = [runs EXCEPT ![w] = Left(@)]
       ELSE \E mac \in runs[w].macs :
                LET to_gran == runs[w].to_gran
                    created == {m.created : m \in BagToSet(
                                    metrics_for_mac(metrics, mac, prev_granularity(to_gran)))}
                IN  runs' = [runs EXCEPT ![w] =
                        IF created = {}
                        THEN [@ EXCEPT !.macs = @ \ {mac}]
                        ELSE [@ EXCEPT !.macs = @ \ {mac}, !.pc = "bucket", !.mac = mac,
                                       !.t0 = round_down(to_gran, MinOf(created)),
                                       !.max_time = round_down(to_gran, Max(created))
                                                        + to_gran]]
    /\ UNCHANGED <<metrics, recorded, now, alertVars>>

\* the range loop up to the next bucket whose bucket_metrics.exists(), and
\* bucket_metrics.create_aggregated for it
RunCreate(w) ==
    /\ runs[w].pc = "bucket"
    /\ LET r == runs[w]
           tb == next_bucket(metrics, r.mac, r.to_gran, r.t0, r.max_time)
           bucket == bucket_metrics(metrics, r.mac, prev_granularity(r.to_gran),
                                    tb, tb + r.to_gran)
       IN  IF tb >= r.max_time
           THEN /\ runs' = [runs EXCEPT ![w] = [@ EXCEPT !.pc = "macs"]]
                /\ UNCHANGED metrics
           ELSE /\ metrics' = metrics (+) SetToBag({create_aggregated(
                                   bucket, r.mac, tb + r.to_gran \div 2, r.to_gran)})
                /\ runs' = [runs EXCEPT ![w] = [@ EXCEPT !.pc = "delete", !.t0 = tb]]
    /\ UNCHANGED <<recorded, now, alertVars>>

\* bucket_metrics.delete(): the queryset is evaluated again by the DELETE
RunDelete(w) ==
    /\ runs[w].pc = "delete"
    /\ LET r == runs[w]
       IN  /\ metrics' = metrics (-) bucket_metrics(metrics, r.mac,
                                         prev_granularity(r.to_gran),
                                         r.t0, r.t0 + r.to_gran)
           /\ runs' = [runs EXCEPT ![w] = [@ EXCEPT !.pc = "bucket",
                                                    !.t0 = r.t0 + r.to_gran]]
    /\ UNCHANGED <<recorded, now, alertVars>>

\* the worker is stopped inside aggregate_metrics
RunStop(w) ==
    /\ runs[w].pc # "idle"
    /\ runs' = [runs EXCEPT ![w] = Left(@)]
    /\ UNCHANGED <<metrics, recorded, now, alertVars>>

\* time passes: by 17 minutes, by 7 hours or by 3 days, within the horizon
Horizon == HorizonDays * SecondsPerDay

Tick ==
    \E step \in {17 * 60, 7 * SecondsPerHour, 3 * SecondsPerDay} :
        /\ now + step < Horizon
        /\ now' = now + step
        /\ UNCHANGED <<metrics, recorded, runs, alertVars>>

Init ==
    /\ alerts = <<>>
    /\ node_mesh = [n \in {"n1"} |-> "m1"]
    /\ call = NoCall
    /\ tasks = [w \in Workers |-> Idle]
    /\ values = ValuesVec(0, NumChecks)
    /\ held = [obj |-> MeshObj(None), cache |-> NoCache, at |-> "idle"]
    /\ metrics = EmptyBag
    /\ recorded = EmptyBag
    /\ now = Horizon
    /\ runs = [w \in Aggregators |-> NotRunning]

\* a caller holds the node or the mesh; the values are in any state
InitChecks ==
    /\ alerts = <<>>
    /\ node_mesh = [n \in {"n1"} |-> "m1"]
    /\ call = NoCall
    /\ tasks = [w \in Workers |-> Idle]
    /\ values \in ValueInputs
    /\ held \in {[obj |-> o, cache |-> NoCache, at |-> "idle"] :
                   o \in {NodeObj("n1", "online"), MeshObj("m1")}}
    /\ metrics = EmptyBag
    /\ recorded = EmptyBag
    /\ now = Horizon
    /\ runs = [w \in Aggregators |-> NotRunning]

\* generate_alert calls run one at a time
Next == NodeGenerateAlert \/ MeshGenerateAlert

Spec == Init /\ [][Next]_vars

\* run_pings and generate_alerts run on different workers, step by step
NextWorkers ==
    \E w \in Workers :
        \/ Begin(w)
        \/ ResolveQuery(w)
        \/ ApplyQuery(w)
        \/ ApplyWrite(w)
        \/ WorseQuery(w)
        \/ ResolveOne(w)
        \/ Return(w)

SpecWorkers == Init /\ [][NextWorkers]_vars

\* generate_alert calls and direct apply calls, one at a time
NextApply == NodeGenerateAlert \/ ApplyUnscoped

SpecApply == Init /\ [][NextApply]_vars

\* the checks run on a held object while its values change
NextChecks ==
    SetValues \/ ReadCheckResults \/ GenerateAlertRaises \/ GenerateAlertHeld

SpecChecks == InitChecks /\ [][NextChecks]_vars

\* samples are recorded and aggregations run, one at a time
NextAggregate == RecordMetric \/ Aggregate

SpecAggregate == Init /\ [][NextAggregate]_vars

\* a collector records a sample at the present time
Ingest ==
    \E mac \in Macs, p \in SamplePayloads :
        LET m == Metric(mac, RAW, now, p[1], p[2])
        IN  /\ BagCardinality(recorded) < MaxSamples
            /\ metrics' = metrics (+) SetToBag({m})
            /\ recorded' = recorded (+) SetToBag({m})
            /\ UNCHANGED <<now, runs, alertVars>>

\* time passes until the next instant a collector or a schedule wakes up
ClockTimes == SampleTimes \cup {Horizon}

Advance ==
    \E t \in ClockTimes :
        /\ t > now
        /\ now' = t
        /\ UNCHANGED <<metrics, recorded, runs, alertVars>>

\* samples are recorded as time passes and aggregations run in between
InitClock ==
    /\ alerts = <<>>
    /\ node_mesh = [n \in {"n1"} |-> "m1"]
    /\ call = NoCall
    /\ tasks = [w \in Workers |-> Idle]
    /\ values = ValuesVec(0, NumChecks)
    /\ held = [obj |-> MeshObj(None), cache |-> NoCache, at |-> "idle"]
    /\ metrics = EmptyBag
    /\ recorded = EmptyBag
    /\ now = MinOf(SampleTimes)
    /\ runs = [w \in Aggregators |-> NotRunning]

NextClock == Ingest \/ Advance \/ Aggregate

SpecClock == InitClock /\ [][NextClock]_vars

\* the samples are recorded before the first aggregation is started
RecordBefore ==
    /\ \A w \in Aggregators : runs[w].started = 0
    /\ RecordMetric

\* one worker runs the aggregations and may be stopped at any query
NextStopped ==
    \/ RecordBefore
    \/ \E to_gran \in {HOURLY, DAILY, MONTHLY} : RunStart("a1", to_gran)
    \/ RunNextMac("a1")
    \/ RunCreate("a1")
    \/ RunDelete("a1")
    \/ RunStop("a1")

SpecStopped == Init /\ [][NextStopped]_vars

\* two workers run aggregations at the same time, each to its end
\* the samples in the store when the workers start: any of three samples
\* of one device and one of the other
StoredSamples ==
    {Metric("ec:27", RAW, t, 10, 10) : t \in SampleTimes}
        \cup {Metric("f7:bb", RAW, Max(SampleTimes), 10, 0)}

InitRunners ==
    /\ alerts = <<>>
    /\ node_mesh = [n \in {"n1"} |-> "m1"]
    /\ call = NoCall
    /\ tasks = [w \in Workers |-> Idle]
    /\ values = ValuesVec(0, NumChecks)
    /\ held = [obj |-> MeshObj(None), cache |-> NoCache, at |-> "idle"]
    /\ metrics \in {SetToBag(S) : S \in SUBSET StoredSamples}
    /\ recorded = metrics
    /\ now = Horizon
    /\ runs = [w \in Aggregators |-> NotRunning]

NextRunners ==
    \/ \E w \in Aggregators, to_gran \in {HOURLY, DAILY, MONTHLY} : RunStart(w, to_gran)
    \/ \E w \in Aggregators : RunNextMac(w)
    \/ \E w \in Aggregators : RunCreate(w)
    \/ \E w \in Aggregators : RunDelete(w)

SpecRunners == InitRunners /\ [][NextRunners]_vars

\* the store after weeks of operation: DAILY rows, at noon, of days of
\* three months (the 5th and the 31st of the first month, the 10th of the
\* second, the 4th of the third), made of one sample each
DailyRows ==
    {Metric(mac, DAILY, d * SecondsPerDay + DAILY \div 2, 10, 10) :
        mac \in Macs, d \in {4, 30, 40, 62}}

InitMonths ==
    /\ alerts = <<>>
    /\ node_mesh = [n \in {"n1"} |-> "m1"]
    /\ call = NoCall
    /\ tasks = [w \in Workers |-> Idle]
    /\ values = ValuesVec(0, NumChecks)
    /\ held = [obj |-> MeshObj(None), cache |-> NoCache, at |-> "idle"]
    /\ \E S \in SUBSET DailyRows :
           /\ metrics = SetToBag(S)
           /\ recorded = SetToBag({[m EXCEPT !.granularity = RAW] : m \in S})
    /\ now = Horizon
    /\ runs = [w \in Aggregators |-> NotRunning]

SpecMonths == InitMonths /\ [][Aggregate]_vars

\* two meshes; the first node is in the first, the second node in either
UsageMeshes == {"m1", "m2"}

InitUsage ==
    /\ alerts = <<>>
    /\ node_mesh \in {[mac \in Macs |-> IF mac = "ec:27" THEN "m1" ELSE mesh] :
                        mesh \in UsageMeshes}
    /\ call = NoCall
    /\ tasks = [w \in Workers |-> Idle]
    /\ values = ValuesVec(0, NumChecks)
    /\ held = [obj |-> MeshObj(None), cache |-> NoCache, at |-> "idle"]
    /\ metrics \in {SetToBag(S) : S \in SUBSET StoredSamples}
    /\ recorded = metrics
    /\ now = MinOf(SampleTimes)
    /\ runs = [w \in Aggregators |-> NotRunning]

\* time passes, aggregations run in between, and the usage of the meshes
\* is read off the store
NextUsage == Advance \/ Aggregate

SpecUsage == InitUsage /\ [][NextUsage]_vars

\* the clock alone, from the epoch on
InitTime ==
    /\ alerts = <<>>
    /\ node_mesh = [n \in {"n1"} |-> "m1"]
    /\ call = NoCall
    /\ tasks = [w \in Workers |-> Idle]
    /\ values = ValuesVec(0, NumChecks)
    /\ held = [obj |-> MeshObj(None), cache |-> NoCache, at |-> "idle"]
    /\ metrics = EmptyBag
    /\ recorded = EmptyBag
    /\ now = 0
    /\ runs = [w \in Aggregators |-> NotRunning]

SpecTime == InitTime /\ [][Tick]_vars

\* one worker runs the aggregations query by query while the collectors
\* keep recording samples
NextIngesting ==
    \/ RecordMetric
    \/ \E to_gran \in {HOURLY, DAILY, MONTHLY} : RunStart("a1", to_gran)
    \/ RunNextMac("a1")
    \/ RunCreate("a1")
    \/ RunDelete("a1")

SpecIngesting == Init /\ [][NextIngesting]_vars

\* two nodes of one mesh and the mesh itself are monitored
InitScopes ==
    /\ alerts = <<>>
    /\ node_mesh = [n \in {"n1", "n2"} |-> "m1"]
    /\ call = NoCall
    /\ tasks = [w \in Workers |-> Idle]
    /\ values = ValuesVec(0, NumChecks)
    /\ held = [obj |-> MeshObj(None), cache |-> NoCache, at |-> "idle"]
    /\ metrics = EmptyBag
    /\ recorded = EmptyBag
    /\ now = Horizon
    /\ runs = [w \in Aggregators |-> NotRunning]

\* the check results fed to the calls: all pass or all fail for a node,
\* whose alerts are created, renamed between the offline and the health
\* title, and resolved; one fails as well for the mesh, whose alerts are
\* upgraded too
NodeScopeResults == {Vec(0, 0), Vec(NumChecks, 0)}
MeshScopeResults == {Vec(0, 0), Vec(1, 0), Vec(NumChecks, 0)}

\* generate_alert calls on either node and on the mesh, one at a time
NextScopes ==
    \/ \E n \in Nodes, s \in StatusInputs, r \in NodeScopeResults :
           /\ generate_alert(NodeObj(n, s), r)
           /\ UNCHANGED <<values, held>>
    \/ \E m \in Meshes, r \in MeshScopeResults :
           /\ generate_alert(MeshObj(m), r)
           /\ UNCHANGED <<values, held>>

SpecScopes == InitScopes /\ [][NextScopes]_vars

\* the meshes a node can be adopted into; None for a node without mesh
MoveMeshes == {"m1", "m2", None}

\* NodeViewSet update: Node.mesh is set to another mesh or to null
MoveNode ==
    \E n \in Nodes, m \in MoveMeshes :
        /\ m # node_mesh[n]
        /\ node_mesh' = [node_mesh EXCEPT ![n] = m]
        /\ UNCHANGED <<alerts, call, tasks, values, held>>
        /\ UNCHANGED metricVars

\* generate_alert calls on a node that is moved between meshes in between
NextMoves == NodeGenerateAlert \/ MoveNode

SpecMoves == Init /\ [][NextMoves]_vars

\* aggregate_all_metrics(to_gran) as the schedule calls it, for the one
\* metric type of the model
aggregate_all_metrics(to_gran) ==
    /\ metrics' = aggregate_metrics(metrics, to_gran)
    /\ UNCHANGED <<recorded, now, runs, alertVars>>

\* the samples the devices recorded before they stopped reporting: at
\* 22:10 and 23:16 of the first day, at 00:30 of the second and at noon of
\* the 31st
LastDayOfMonth == 30 * SecondsPerDay + 12 * SecondsPerHour
RollupSamples ==
    {Metric(mac, RAW, t, 10, 3) : mac \in Macs, t \in SampleTimes \cup {LastDayOfMonth}}

InitRollup ==
    /\ alerts = <<>>
    /\ node_mesh = [n \in {"n1"} |-> "m1"]
    /\ call = NoCall
    /\ tasks = [w \in Workers |-> Idle]
    /\ values = ValuesVec(0, NumChecks)
    /\ held = [obj |-> MeshObj(None), cache |-> NoCache, at |-> "idle"]
    /\ metrics \in {SetToBag(S) : S \in SUBSET RollupSamples}
    /\ recorded = metrics
    /\ now = LastDayOfMonth
    /\ runs = [w \in Aggregators |-> NotRunning]

\* the devices have stopped reporting; time passes and the beat schedule
\* keeps starting the three aggregations
NextRollup ==
    \/ Advance
    \/ aggregate_all_metrics(HOURLY)
    \/ aggregate_all_metrics(DAILY)
    \/ aggregate_all_metrics(MONTHLY)

\* weak fairness of a scheduled aggregation, WF_vars(aggregate_all_metrics(to_gran)),
\* written out: the step is enabled exactly when the run would change the
\* store, and a run that stays enabled from some point on is taken again
\* and again
WeakFair(to_gran) ==
    \/ []<>(aggregate_metrics(metrics, to_gran) = metrics)
    \/ []<><<aggregate_all_metrics(to_gran)>>_vars

\* the clock does not stop and every schedule keeps firing
SpecRollup ==
    /\ InitRollup
    /\ [][NextRollup]_vars
    /\ WF_vars(Advance)
    /\ WeakFair(HOURLY)
    /\ WeakFair(DAILY)
    /\ WeakFair(MONTHLY)

(* ------------------------------ claims --------------------------------- *)
\* the scope an alert row is attached to: its node, or its mesh without node
ScopeOf(a) == IF a.node # None THEN <<"node", a.node>> ELSE <<"mesh", a.mesh>>
\* the scope of the object the last call ran on
CallScope == IF call.status = None THEN <<"mesh", call.entity>>
             ELSE <<"node", call.entity>>
Unresolved(sc, store) ==
    {i \in DOMAIN store : ScopeOf(store[i]) = sc /\ store[i].status # StatusResolved}
Called == call.entity # None

\* C1: after any sequence of generate_alert calls run one at a time, every
\* scope has at most one stored alert whose status is not RESOLVED.
C1_AtMostOneUnresolved ==
    \A i, j \in DOMAIN alerts :
        (i # j /\ alerts[i].status # StatusResolved
               /\ alerts[j].status # StatusResolved)
            => ScopeOf(alerts[i]) # ScopeOf(alerts[j])

\* a scope holds a resolved alert and, created after it, an unresolved one
C1_Witness ==
    \E i, j \in DOMAIN alerts :
        /\ i < j /\ ScopeOf(alerts[i]) = ScopeOf(alerts[j])
        /\ alerts[i].status = StatusResolved
        /\ alerts[j].status # StatusResolved

\* C3: a RESOLVED alert is never changed again by a generate_alert call, and
\* when the condition recurs for a scope whose alerts are all resolved a
\* further row with status NEW is created for it.
C3_ResolvedIsFinal ==
    [][ /\ \A i \in DOMAIN alerts :
               alerts[i].status = StatusResolved
                   => i \in DOMAIN alerts' /\ alerts'[i] = alerts[i]
        /\ ( /\ call'.candidate # NoAlert
             /\ Unresolved(ScopeOf(call'.candidate), alerts) = {}
             /\ \E i \in DOMAIN alerts :
                    ScopeOf(alerts[i]) = ScopeOf(call'.candidate) )
           => /\ Len(alerts') = Len(alerts) + 1
              /\ alerts'[Len(alerts')].status = StatusNew
              /\ ScopeOf(alerts'[Len(alerts')]) = ScopeOf(call'.candidate)
      ]_vars

\* the condition recurred: a NEW alert stands after a resolved one of its scope
C3_Witness ==
    \E i, j \in DOMAIN alerts :
        /\ i < j /\ ScopeOf(alerts[i]) = ScopeOf(alerts[j])
        /\ alerts[i].status = StatusResolved
        /\ alerts[j].status = StatusNew
        /\ call.returned # NoAlert

\* the status pairs a write to a stored alert may produce
AllowedTransitions ==
    {<<StatusNew, StatusUpgraded>>, <<StatusNew, StatusRename>>,
     <<StatusNew, StatusResolved>>, <<StatusUpgraded, StatusUpgraded>>,
     <<StatusUpgraded, StatusRename>>, <<StatusUpgraded, StatusResolved>>,
     <<StatusRename, StatusRename>>, <<StatusRename, StatusResolved>>}

\* C4: every write to a stored alert takes its status along one of NEW ->
\* UPGRADED | RENAME | RESOLVED, UPGRADED -> UPGRADED | RENAME | RESOLVED,
\* RENAME -> RENAME | RESOLVED; never RENAME -> UPGRADED, never back to NEW,
\* never out of RESOLVED.
C4_StatusTransitions ==
    [][ \A i \in DOMAIN alerts :
            /\ i \in DOMAIN alerts'
            /\ alerts'[i] # alerts[i]
                   => <<alerts[i].status, alerts'[i].status>> \in AllowedTransitions
      ]_vars

\* an alert was created, renamed and then resolved
C4_Witness ==
    \E i \in DOMAIN alerts :
        /\ alerts[i].status = StatusResolved
        /\ Len(alerts[i].text) = 3
        /\ alerts[i].text[2].msg = "Renamed"

\* C5: the level of a stored alert never decreases; it changes only by an
\* upgrade, and an upgrade is applied only when the candidate's level is
\* strictly greater than the alert's level.
C5_LevelMonotonic ==
    [][ \A i \in DOMAIN alerts :
            /\ alerts'[i].level >= alerts[i].level
            /\ (alerts'[i].level # alerts[i].level
                \/ (alerts'[i] # alerts[i] /\ alerts'[i].status = StatusUpgraded))
                   => /\ alerts'[i].status = StatusUpgraded
                      /\ call'.candidate.level > alerts[i].level
                      /\ alerts'[i].level = call'.candidate.level
      ]_vars

\* an ERROR alert was upgraded to CRITICAL
C5_Witness ==
    \E i \in DOMAIN alerts :
        /\ alerts[i].status = StatusUpgraded
        /\ alerts[i].level = LevelCritical
        /\ call.returned # NoAlert

\* C6: a call on an entity whose fresh health status is OK or UNKNOWN, and
\* which is not an OFFLINE node, returns none and leaves no alert of the
\* scope with a status other than RESOLVED.
C6_HealthyResolvesAll ==
    (Called /\ call.health_status \in {OK, UNKNOWN} /\ call.status # OFFLINE)
        => /\ call.returned = NoAlert
           /\ Unresolved(CallScope, alerts) = {}

\* a healthy call found an alert of its scope and it is resolved now
C6_Witness ==
    /\ Called /\ call.health_status = OK /\ call.status # OFFLINE
    /\ \E i \in DOMAIN alerts :
           ScopeOf(alerts[i]) = CallScope /\ alerts[i].status = StatusResolved

\* C7: after apply ran with a candidate of level L, no unresolved alert of
\* the scope has a level above L, whichever branch apply took.
C7_WorseAreResolved ==
    (Called /\ call.candidate # NoAlert)
        => \A i \in Unresolved(CallScope, alerts) :
               alerts[i].level <= call.candidate.level

\* an ERROR candidate met a CRITICAL alert, which is resolved now
C7_Witness ==
    /\ Called /\ call.candidate.level = LevelError
    /\ \E i \in DOMAIN alerts :
           /\ ScopeOf(alerts[i]) = CallScope
           /\ alerts[i].level = LevelCritical
           /\ alerts[i].status = StatusResolved
           /\ Unresolved(CallScope, alerts) = {}

\* C8: when the candidate has the level and the title of the latest
\* unresolved alert of its scope, the call leaves the alert table unchanged
\* and returns none.
C8_SameAlertIsNoOp ==
    [][ ( /\ call'.candidate # NoAlert
          /\ Unresolved(ScopeOf(call'.candidate), alerts) # {}
          /\ LET pk == Max(Unresolved(ScopeOf(call'.candidate), alerts))
             IN  /\ alerts[pk].level = call'.candidate.level
                 /\ alerts[pk].title = call'.candidate.title )
        => /\ alerts' = alerts
           /\ call'.returned = NoAlert
      ]_vars

\* a candidate equal in level and title to the standing alert returned none
C8_Witness ==
    /\ Called /\ call.candidate # NoAlert /\ call.returned = NoAlert
    /\ \E i \in Unresolved(CallScope, alerts) :
           /\ alerts[i].level = call.candidate.level
           /\ alerts[i].title = call.candidate.title

\* C9: for a node whose status is OFFLINE the candidate is CRITICAL with the
\* offline title, whatever the check results are.
C9_OfflineOverrides ==
    (Called /\ call.status = OFFLINE)
        => /\ call.candidate.level = LevelCritical
           /\ call.candidate.title = TITLE_OFFLINE

\* an OFFLINE node all of whose checks pass got the offline candidate
C9_Witness ==
    /\ Called /\ call.status = OFFLINE
    /\ call.health_status = OK
    /\ call.candidate.title = TITLE_OFFLINE

\* C10: for an entity that is not an OFFLINE node the candidate is CRITICAL
\* exactly when the health status is CRITICAL and ERROR exactly when it is
\* ERROR or WARNING, and no alert of level WARNING is ever stored.
C10_CandidateLevel ==
    /\ (Called /\ call.status # OFFLINE)
           => /\ (call.candidate.level = LevelCritical)
                      <=> (call.health_status = CRITICAL)
              /\ (call.candidate.level = LevelError)
                      <=> (call.health_status \in {ERROR, WARNING})
    /\ \A i \in DOMAIN alerts : alerts[i].level # LevelWarning

\* a WARNING health status was stored as an alert of level ERROR
C10_Witness ==
    /\ Called /\ call.status # OFFLINE /\ call.health_status = WARNING
    /\ call.returned # NoAlert
    /\ alerts[Len(alerts)].level = LevelError

\* C2: when two generate_alert calls for one scope interleave, the scope
\* still never has more than one alert whose status is not RESOLVED.
C2_AtMostOneUnresolvedInterleaved ==
    \A n \in Nodes : Cardinality(Unresolved(<<"node", n>>, alerts)) <= 1

\* the keys with passed == false in the results the last call evaluated
FailedKeys(c) == {i \in DOMAIN c.results : c.results[i] = "False"}

\* the call appended one row and left the others as they were; the row is
\* NEW, belongs to the call's scope and its text is the one line listing
\* the keys with passed == false
StoredNewListingFailed ==
    /\ Len(alerts') = Len(alerts) + 1
    /\ \A i \in DOMAIN alerts : alerts'[i] = alerts[i]
    /\ LET a == alerts'[Len(alerts')]
       IN  /\ a.status = StatusNew
           /\ ScopeOf(a) = CallScope'
           /\ Len(a.text) = 1
           /\ a.text[1].msg = "The following health checks failed"
           /\ a.text[1].keys = FailedKeys(call')

\* C11 (as amended): when generate_alert on an entity that is not an OFFLINE
\* node finds a status other than OK and UNKNOWN and the scope has no
\* unresolved alert, it stores exactly one new alert with status NEW whose
\* text lists exactly the keys of the checks with passed == false in the
\* evaluation that produced the status.
C11_NewAlertListsFailedKeys ==
    [][ ( /\ Called'
          /\ call'.status # OFFLINE
          /\ call'.health_status \notin {OK, UNKNOWN}
          /\ Unresolved(CallScope', alerts) = {} )
        => StoredNewListingFailed
      ]_vars

\* a NEW alert lists the one failed key of an evaluation in which another
\* check could not run
C11_Witness ==
    /\ Called /\ call.status # OFFLINE /\ call.returned # NoAlert
    /\ \E i \in DOMAIN call.results : call.results[i] = "None"
    /\ alerts[Len(alerts)].status = StatusNew
    /\ alerts[Len(alerts)].text[1].keys = FailedKeys(call)
    /\ FailedKeys(call) # {}

\* C11 (as stated): whenever generate_alert finds a status other than OK and
\* UNKNOWN and the scope has no unresolved alert, it stores exactly one new
\* alert with status NEW whose text lists exactly the keys of the checks with
\* passed == false.
C11_AnyEntityListsFailedKeys ==
    [][ ( /\ Called'
          /\ call'.health_status \notin {OK, UNKNOWN}
          /\ Unresolved(CallScope', alerts) = {} )
        => StoredNewListingFailed
      ]_vars

\* C12: the alert generate_alert returns is the stored record that was
\* created or mutated, with the status (NEW, UPGRADED or RENAME) the record
\* has in the table.
C12_ReturnedIsStored ==
    (Called /\ call.returned # NoAlert)
        => \E i \in Unresolved(CallScope, alerts) : alerts[i] = call.returned

\* C13 (as amended): every alert stored by generate_alert carries the scope
\* of the entity it was generated for: a mesh-scoped alert carries its mesh
\* and no node, and a node-scoped alert carries its node together with that
\* node's mesh.
C13_ScopeFields ==
    \A i \in DOMAIN alerts :
        /\ alerts[i].node = None => alerts[i].mesh \in Meshes
        /\ alerts[i].node # None
               => /\ alerts[i].node \in Nodes
                  /\ alerts[i].mesh = node_mesh[alerts[i].node]

\* the table holds an alert of a node and an alert of a mesh
C13_Witness ==
    \E i, j \in DOMAIN alerts :
        /\ alerts[i].node # None /\ alerts[i].mesh # None
        /\ alerts[j].node = None /\ alerts[j].mesh # None

\* C13 (as stated): every stored alert has exactly one of node and mesh set.
C13_ExactlyOneOfNodeAndMesh ==
    \A i \in DOMAIN alerts : (alerts[i].node = None) # (alerts[i].mesh = None)

\* C14: apply on a candidate that has neither a node nor a mesh returns
\* false and stores or changes no alert.
C14_UnscopedApplyIsNoOp ==
    [][ ( /\ call'.candidate # NoAlert
          /\ call'.candidate.node = None
          /\ call'.candidate.mesh = None )
        => /\ call'.result = FALSE
           /\ alerts' = alerts
      ]_vars

\* apply ran on a candidate without scope while the table held an alert
C14_Witness ==
    /\ call.candidate # NoAlert
    /\ call.candidate.node = None /\ call.candidate.mesh = None
    /\ call.result = FALSE
    /\ alerts # <<>>

\* the status section 4.4 of the design assigns to a list of passed values
StatusByRule(r) ==
    LET failed == Count(r, {"False"})
        passed_n == Count(r, {"True"})
        total == failed + passed_n
    IN  IF total = 0 THEN UNKNOWN
        ELSE IF failed = 0 THEN OK
        ELSE IF 2 * failed <= total THEN WARNING
        ELSE IF passed_n > 0 THEN ERROR
        ELSE CRITICAL

\* C15: for every result set the health status is UNKNOWN when no check ran,
\* else OK when none failed, else WARNING when at most half of the checks
\* that ran failed, else ERROR when one passed, else CRITICAL; failed counts
\* passed == false and the total counts passed == false and passed == true.
C15_StatusFollowsRule ==
    (Called /\ ~call.raised) => call.health_status = StatusByRule(call.results)

\* a list of passed values without its None entries
WithoutNulls(r) == SelectSeq(r, LAMBDA p : p # "None")

\* C16: results with passed == null do not influence the health status: a
\* result set and the same set without its null results get the same status.
C16_NullsDoNotCount ==
    (Called /\ ~call.raised)
        => call.health_status = get_health_status(WithoutNulls(call.results))

IsResultListOf(results, obj, vals) ==
    /\ Len(results) = Len(health_checks(obj))
    /\ \A i \in 1..Len(results) :
           LET check == health_checks(obj)[i]
               res == results[i]
           IN  /\ res.key = check.key
               /\ check.key \in DOMAIN vals
               /\ IF vals[check.key].has
                  THEN /\ res.passed = IF check_func(check, vals[check.key].v)
                                       THEN "True" ELSE "False"
                       /\ res.feedback = check.feedback[res.passed]
                  ELSE /\ res.passed = "None"
                       /\ res.feedback = check.feedback["None"]

\* C18: run_checks returns exactly one result per check configured for the
\* entity's type, in declaration order, with passed == null and the null
\* feedback for an absent value and passed == predicate(value) with the
\* matching feedback otherwise.
C18_OneResultPerConfiguredCheck ==
    held.at = "called"
        => /\ ~call.raised
           /\ IsResultListOf(held.cache.results, held.obj, values)

\* the device checks for whose key obj has neither attribute nor accessor
MissingKeys(obj) ==
    {i \in 1..Len(DEVICE_CHECKS) : Exposure(obj, DEVICE_CHECKS[i].key) = "missing"}

\* C19: when the entity has neither an attribute nor an accessor for the key
\* of a check, run_checks does not fail: the result of that check has
\* passed == null and the other checks still get their results.
C19_MissingSourceIsAbsent ==
    (held.at = "called" /\ MissingKeys(held.obj) # {})
        => /\ ~call.raised
           /\ Len(held.cache.results) = Len(DEVICE_CHECKS)
           /\ \A i \in MissingKeys(held.obj) :
                  held.cache.results[i].passed = "None"

\* C20: aggregate preserves totals: for every device and every summed field
\* the sum over all stored rows of the device, all granularities together,
\* is the same after an aggregate call as before it.
C20_AggregatePreservesTotals ==
    [][ recorded' = recorded
        => \A mac \in Macs, field \in {"rx_bytes", "tx_bytes"} :
               get_sum(metrics_of(metrics', mac), field)
                   = get_sum(metrics_of(metrics, mac), field)
      ]_vars

\* two samples of one device were merged into one HOURLY row holding their
\* sum while a sample of the other device is stored too
C20_Witness ==
    \E m \in BagToSet(metrics), n \in BagToSet(metrics) :
        /\ m.granularity = HOURLY /\ m.rx_bytes = 20
        /\ n.mac # m.mac
        /\ BagCardinality(recorded) = 3

\* C21: aggregate is idempotent: a second run of aggregate(kind, G) right
\* after the first, nothing recorded in between, leaves the store exactly as
\* the first run left it, for every store the program reaches.
C21_AggregateIdempotent ==
    \A to_gran \in {HOURLY, DAILY, MONTHLY} :
        aggregate_metrics(aggregate_metrics(metrics, to_gran), to_gran)
            = aggregate_metrics(metrics, to_gran)

\* an HOURLY run has merged samples, a raw sample was recorded after it, and
\* the next HOURLY run has work to do while the one after that has none
C21_Witness ==
    /\ \E m \in BagToSet(metrics) : m.granularity = HOURLY
    /\ \E m \in BagToSet(metrics) : m.granularity = RAW
    /\ aggregate_metrics(metrics, HOURLY) # metrics

\* the orders in which the three scheduled aggregations can run
RunOrders ==
    {p \in [1..3 -> {HOURLY, DAILY, MONTHLY}] : \A i, j \in 1..3 : p[i] = p[j] => i = j}

\* the store after the aggregations ran one after the other in the order p
RunInOrder(store, p) ==
    aggregate_metrics(aggregate_metrics(aggregate_metrics(store, p[1]), p[2]), p[3])

\* the totals of a store: of every field, over all devices together
\* (device None) and for every device alone
Totals(store) ==
    [mac \in Macs \cup {None}, field \in {"rx_bytes", "tx_bytes"} |->
        IF mac = None THEN get_sum(store, field)
        ELSE get_sum(metrics_of(store, mac), field)]

\* C22: from the same store, the HOURLY, DAILY and MONTHLY aggregations run
\* in any of their permutations end with the same totals of every field,
\* over all devices together and for every device alone: every order ends
\* with the totals the order HOURLY, DAILY, MONTHLY ends with.
C22_OrderKeepsTotals ==
    LET t1 == Totals(RunInOrder(metrics, <<HOURLY, DAILY, MONTHLY>>))
    IN  \A p \in RunOrders : Totals(RunInOrder(metrics, p)) = t1

\* both devices have raw samples and the order matters for the rows that
\* are left: only the order HOURLY, DAILY, MONTHLY ends with a MONTHLY row
C22_Witness ==
    /\ \A mac \in Macs : \E m \in BagToSet(metrics) :
           m.mac = mac /\ m.granularity = RAW
    /\ \E p \in RunOrders, q \in RunOrders :
           /\ RunInOrder(metrics, p) # RunInOrder(metrics, q)
           /\ \E m \in BagToSet(RunInOrder(metrics, p)) : m.granularity = MONTHLY

\* C28: for HOURLY, DAILY and MONTHLY and every timestamp t, round_down(G, t)
\* is a multiple of width(G) counted from the epoch and
\* round_down(G, t) <= t < round_down(G, t) + width(G).
C28_RoundDownWithinWidth ==
    \A gran \in {HOURLY, DAILY, MONTHLY} :
        /\ round_down(gran, now) % gran = 0
        /\ round_down(gran, now) <= now
        /\ now < round_down(gran, now) + gran

next_granularity(gran) ==
    CHOOSE to_gran \in {HOURLY, DAILY, MONTHLY} : prev_granularity(to_gran) = gran

\* the end of the bucket a source row is aggregated in
BucketEnd(m) ==
    round_down(next_granularity(m.granularity), m.created)
        + next_granularity(m.granularity)

\* C23: aggregate never merges or deletes a source record whose bucket has
\* not fully elapsed at the current time: while now lies before the end of
\* the bucket of a stored source row, no step removes a copy of that row.
\* (Rows of elapsed buckets are aggregated by the next run.)
C23_UnelapsedBucketUntouched ==
    [][ \A m \in BagToSet(metrics) :
            (m.granularity # MONTHLY /\ now < BucketEnd(m))
                => (m \in BagToSet(metrics') /\ metrics'[m] >= metrics[m])
      ]_vars

\* C24: after any interleaving of ingestion and completed aggregate runs,
\* no two records of one device and one aggregated granularity G have their
\* created timestamps in the same G-bucket.
C24_OneRecordPerBucket ==
    \A m \in BagToSet(metrics), n \in BagToSet(metrics) :
        ( /\ m.granularity # RAW
          /\ n.granularity = m.granularity
          /\ n.mac = m.mac
          /\ round_down(m.granularity, n.created) = round_down(m.granularity, m.created) )
        => (n = m /\ metrics[m] = 1)

\* C25: creating the aggregated record of a bucket and deleting its source
\* records take effect as one unit: whenever no run is in progress, also
\* after a run was stopped, running the aggregation again leaves every
\* recorded sample counted exactly once in the totals of every field.
C25_StoppedRunKeepsTotals ==
    (\A w \in Aggregators : runs[w].pc = "idle")
        => \A to_gran \in {HOURLY, DAILY, MONTHLY} :
               Totals(aggregate_metrics(metrics, to_gran)) = Totals(recorded)

\* C26: aggregator runs that touch the same partition never interleave:
\* when two workers ran aggregations of one kind at the same time and both
\* have finished, the totals of every field are what the runs made one
\* after the other leave, the totals of the recorded samples.
C26_InterleavedRunsKeepTotals ==
    (\A w \in Aggregators : runs[w].pc = "idle") => Totals(metrics) = Totals(recorded)

\* the records aggregate_metrics(to_gran) is to create from a store: for
\* every device and every bucket [t0, t0 + width) of a source row that holds
\* source rows, one row at the midpoint with the sums over the bucket
ExpectedRecords(store, to_gran) ==
    LET from_gran == prev_granularity(to_gran)
        buckets == {<<m.mac, round_down(to_gran, m.created)>> :
                       m \in {x \in BagToSet(store) : x.granularity = from_gran}}
    IN  {create_aggregated(
             bucket_metrics(store, b[1], from_gran, b[2], b[2] + to_gran),
             b[1], b[2] + to_gran \div 2, to_gran) :
         b \in {c \in buckets :
                   BagToSet(bucket_metrics(store, c[1], from_gran, c[2], c[2] + to_gran))
                       # {}}}

\* C27: for every device and every G-bucket [t0, t1) that holds a source
\* record, aggregate(kind, G) creates exactly one record at granularity G
\* with created = t0 + (t1 - t0)/2 and every field the sum over the device's
\* source records in [t0, t1), and it creates no other record.
C27_ExactAggregatedRecord ==
    \A to_gran \in {HOURLY, DAILY, MONTHLY} :
        aggregate_metrics(metrics, to_gran) (-) metrics
            = SetToBag(ExpectedRecords(metrics, to_gran))

RECURSIVE BytesOf(_, _)
\* rx_bytes plus tx_bytes of the rows S of a store, every copy counted
BytesOf(S, store) ==
    IF S = {} THEN 0
    ELSE LET m == CHOOSE x \in S : TRUE
         IN  store[m] * (m.rx_bytes + m.tx_bytes) + BytesOf(S \ {m}, store)

\* the records of the nodes of a mesh with created in [t0, t1)
InWindow(mesh, t0, t1) ==
    {m \in BagToSet(metrics) :
        /\ \E n \in Nodes : n = m.mac /\ node_mesh[n] = mesh
        /\ t0 <= m.created /\ m.created < t1}

\* C30: the data usage of a mesh over a window is the sum of rx_bytes and
\* tx_bytes of exactly the records of the mesh's nodes with created in
\* [t0, t1), 0 when there is none; the daily and the hourly usage are the
\* usage over the running day and the running hour.
C30_MeshDataUsage ==
    \A mesh \in UsageMeshes :
        LET day == round_down(DAILY, now)
            hour == round_down(HOURLY, now)
        IN  /\ get_daily_data_usage(mesh)
                   = BytesOf(InWindow(mesh, day, day + DAILY), metrics)
            /\ get_hourly_data_usage(mesh)
                   = BytesOf(InWindow(mesh, hour, hour + HOURLY), metrics)
            /\ \A t0 \in ClockTimes, t1 \in ClockTimes :
                   get_data_usage(mesh, t0, t1) = BytesOf(InWindow(mesh, t0, t1), metrics)

\* the first mesh has used data in the running hour and before it, a
\* node of the other mesh has a record in the running hour, and the other
\* mesh has used no data before the running hour
C30_Witness ==
    /\ get_hourly_data_usage("m1") > 0
    /\ get_data_usage("m1", 0, round_down(HOURLY, now)) > 0
    /\ get_hourly_data_usage("m2") > 0
    /\ get_data_usage("m2", 0, round_down(HOURLY, now)) = 0
    /\ get_daily_data_usage("m1") + get_daily_data_usage("m2")
           < get_data_usage("m1", 0, Horizon) + get_data_usage("m2", 0, Horizon)

\* the buckets of granularity to_gran that hold a source row of the device
TargetBuckets(store, mac, to_gran) ==
    {round_down(to_gran, m.created) :
        m \in BagToSet(metrics_for_mac(store, mac, prev_granularity(to_gran)))}

\* C31: aggregate never increases the number of stored records: for every
\* device the number of records it creates is the number of non-empty target
\* buckets, which is at most the number of source records it deletes, and
\* the count of stored records strictly decreases whenever two source
\* records of one device share a target bucket.
C31_AggregateDecreasesCount ==
    \A to_gran \in {HOURLY, DAILY, MONTHLY} :
        LET after == aggregate_metrics(metrics, to_gran)
            created == after (-) metrics
            deleted == metrics (-) after
        IN  /\ BagCardinality(after) <= BagCardinality(metrics)
            /\ \A mac \in Macs :
                   LET sources == metrics_for_mac(metrics, mac, prev_granularity(to_gran))
                       buckets == TargetBuckets(metrics, mac, to_gran)
                   IN  /\ BagCardinality(metrics_of(created, mac)) = Cardinality(buckets)
                       /\ Cardinality(buckets) <= BagCardinality(metrics_of(deleted, mac))
                       /\ BagCardinality(sources) > Cardinality(buckets)
                              => BagCardinality(after) < BagCardinality(metrics)

C33_IngestDuringRunKeepsTotals ==
    (\A w \in Aggregators : runs[w].pc = "idle") => Totals(metrics) = Totals(recorded)

\* C34: every sample is eventually rolled up: when the devices have stopped
\* reporting, at whatever moment, and the hourly, daily and monthly
\* aggregations keep being run as time advances, then eventually no record
\* is left at RAW, HOURLY or DAILY granularity and the MONTHLY records hold
\* all the data.
C34_EventuallyRolledUp ==
    <>( /\ \A m \in BagToSet(metrics) : m.granularity = MONTHLY
        /\ Totals(metrics) = Totals(recorded) )

\* C35: whenever generate_alert computes a candidate for a scope, then when
\* the call returns the scope has exactly one unresolved alert and that
\* alert's level equals the candidate's level, also when the previous
\* unresolved alert was more severe than the candidate.
C35_CandidateLeavesOneUnresolved ==
    (Called /\ call.candidate # NoAlert)
        => /\ Cardinality(Unresolved(CallScope, alerts)) = 1
           /\ \A i \in Unresolved(CallScope, alerts) :
                  alerts[i].level = call.candidate.level

\* the samples the nodes of a mesh reported with created in [t0, t1)
ReportedIn(mesh, t0, t1) ==
    {m \in BagToSet(recorded) :
        /\ \E n \in Nodes : n = m.mac /\ node_mesh[n] = mesh
        /\ t0 <= m.created /\ m.created < t1}

\* C36: the hourly data usage of a mesh equals the rx and tx bytes its nodes
\* reported during the hour containing now, and the daily data usage the
\* bytes reported during the day containing now, whether or not the records
\* have meanwhile been aggregated to HOURLY, DAILY or MONTHLY granularity.
C36_UsageSurvivesAggregation ==
    \A mesh \in UsageMeshes :
        LET day == round_down(DAILY, now)
            hour == round_down(HOURLY, now)
        IN  /\ get_hourly_data_usage(mesh)
                   = BytesOf(ReportedIn(mesh, hour, hour + HOURLY), recorded)
            /\ get_daily_data_usage(mesh)
                   = BytesOf(ReportedIn(mesh, day, day + DAILY), recorded)

\* the change from store to after is confined to what aggregate(to_gran)
\* may do: the rows that went were at the source granularity, the rows that
\* came are at to_gran, and for every device the rows that came hold the
\* sums of the rows of that device that went
ConfinedTo(to_gran, store, after) ==
    LET created == after (-) store
        deleted == store (-) after
    IN  /\ \A m \in BagToSet(deleted) : m.granularity = prev_granularity(to_gran)
        /\ \A m \in BagToSet(created) : m.granularity = to_gran
        /\ \A m \in BagToSet(store) :
               m.granularity # prev_granularity(to_gran)
                   => (m \in BagToSet(after) /\ after[m] >= store[m])
        /\ \A mac \in Macs, field \in {"rx_bytes", "tx_bytes"} :
               get_sum(metrics_of(created, mac), field)
                   = get_sum(metrics_of(deleted, mac), field)
        /\ \A m \in BagToSet(created) : m.mac \in {d.mac : d \in BagToSet(deleted)}

\* C37: aggregate(G) changes only records at the source granularity prev(G),
\* which it may delete, and at G, which it may create: records at any other
\* granularity and existing records at G are left unchanged, and no
\* record's device identifier is changed or mixed with another device's
\* data.  (The store of the model is the table of one kind.)
C37_AggregateFrame ==
    [][ recorded' = recorded
        => \E to_gran \in {HOURLY, DAILY, MONTHLY} : ConfinedTo(to_gran, metrics, metrics')
      ]_vars

\* a device has the HOURLY record of an earlier run and, of a later run, a
\* second one of the same bucket, while the other device has a DAILY record
C37_Witness ==
    \E m \in BagToSet(metrics), n \in BagToSet(metrics) :
        /\ m.granularity = HOURLY /\ metrics[m] = 2
        /\ n.granularity = DAILY /\ n.mac # m.mac

\* C38: generate_alert for one node creates, changes or resolves only alerts
\* of that node's scope: alerts of other nodes and mesh-scoped alerts are
\* unchanged; generate_alert for a mesh leaves every node-scoped alert (and
\* every alert of another scope) unchanged.
C38_OtherScopesUnchanged ==
    [][ /\ \A i \in DOMAIN alerts :
               ScopeOf(alerts[i]) # CallScope'
                   => (i \in DOMAIN alerts' /\ alerts'[i] = alerts[i])
        /\ \A i \in DOMAIN alerts' \ DOMAIN alerts : ScopeOf(alerts'[i]) = CallScope'
      ]_vars

\* the table holds an alert of one node that is still NEW and an alert of
\* the other node that the last call, made for that node, has resolved
C38_Witness ==
    \E i, j \in DOMAIN alerts :
        /\ alerts[i].node # None /\ alerts[j].node # None
        /\ alerts[i].node # alerts[j].node
        /\ alerts[i].status = StatusNew
        /\ alerts[j].status = StatusResolved
        /\ CallScope = ScopeOf(alerts[j])

\* C39: an unresolved alert raised for a node stays reachable by later
\* generate_alert calls for that node after the node has been moved to
\* another mesh or removed from its mesh: when a call for the node has
\* returned, the node has no unresolved alert if the call had no candidate,
\* and one at most if it had, and none is more severe than the candidate.
C39_MovedNodeAlertReconciled ==
    (Called /\ call.status # None)
        => /\ call.candidate = NoAlert => Unresolved(CallScope, alerts) = {}
           /\ call.candidate # NoAlert
                  => /\ Cardinality(Unresolved(CallScope, alerts)) <= 1
                     /\ \A i \in Unresolved(CallScope, alerts) :
                            alerts[i].level <= call.candidate.level

\* C40: when an alert is renamed, the event line added to its text names
\* the title the alert had before the rename and the new title, and after
\* the rename the alert's title equals the candidate's title while its
\* level is unchanged.
C40_RenameLineNamesBothTitles ==
    [][ \A i \in DOMAIN alerts :
            (alerts'[i] # alerts[i] /\ alerts'[i].status = StatusRename)
                => /\ Head(alerts'[i].text).msg = "Renamed"
                   /\ Head(alerts'[i].text).old = alerts[i].title
                   /\ Head(alerts'[i].text).new = call'.candidate.title
                   /\ alerts'[i].title = call'.candidate.title
                   /\ alerts'[i].level = alerts[i].level
      ]_vars

====
